---------------------------- MODULE Spec2Model ----------------------------
(***************************************************************************)
(* The spreadsheet interaction engine (hook useSpreadsheet) together with  *)
(* the host grid HierarchicalSpreadsheetGrid that instantiates it.         *)
(*                                                                         *)
(* Strings are sequences of one-character strings, so that trimming,      *)
(* splitting and number parsing are computed character by character.      *)
(* One action is one event handler run to completion, followed by the     *)
(* re-render that makes the batched setState calls visible: inside a       *)
(* handler every read goes to the closure (the unprimed variables) and     *)
(* every setState call is recorded in a pending update, the last one       *)
(* winning.                                                                *)
(*                                                                         *)
(* Two further specifications share the module: SpecNum applies the        *)
(* number utilities parseNumberInput and formatCellValue to bounded input  *)
(* strings, SpecSave is the debounced autosave of the second host,         *)
(* SpreadsheetGrid.                                                        *)
(***************************************************************************)
EXTENDS Integers, Sequences, FiniteSets, TLC

VARIABLES
    selectedCell,      \* useState<SpreadsheetCell | null>, use-spreadsheet.ts:32
    editingCell,       \* useState<SpreadsheetCell | null>, use-spreadsheet.ts:33
    editValue,         \* useState<string>, use-spreadsheet.ts:34
    flatAccountItems,  \* host state, hierarchical-spreadsheet-grid.tsx:75
    gridData,          \* host state, hierarchical-spreadsheet-grid.tsx:74
    isDailyView,       \* host prop, passed on as isEditingDisabled
    isLoading,         \* host state, hierarchical-spreadsheet-grid.tsx:77
    calls,             \* callbacks the last handler invoked, in order
    ev,                \* the last event
    pre,               \* the engine state the last event started from
    numeric,           \* SpecNum: a string and what the utilities make of it
    autosave           \* SpecSave: the autosave state of SpreadsheetGrid

engineVars == <<selectedCell, editingCell, editValue, flatAccountItems,
                gridData, isDailyView, isLoading, calls, ev, pre>>

vars == <<engineVars, numeric, autosave>>

----------------------------------------------------------------------------
(* Bounds *)

\* number of account items the catalog service may return
MaxItems == 2

\* number of month columns rendered in monthly view (the months array)
MonthCount == 2

\* number of day columns rendered in daily view (getDaysInMonth)
DaysInMonth == 3

\* the callback invocations of one paste up to which an exception is tried
MaxThrowAt == 2

\* the month the page filter selects (1-based), a prop of the host
SelectedMonth == 1

\* length of the strings handed to parseNumberInput in SpecNum
MaxStrLen == 4

\* number of data changes of one mounted SpreadsheetGrid in SpecSave
MaxChanges == 3

----------------------------------------------------------------------------
(* Strings and numbers *)

DigitChars == <<"0", "1", "2", "3", "4", "5", "6", "7", "8", "9">>

IsDigit(ch) == \E i \in 1..10 : DigitChars[i] = ch

DigitVal(ch) == (CHOOSE i \in 1..10 : DigitChars[i] = ch) - 1

\* characters matched by \s in the alphabet of the model
Whitespace == {" ", "\t", "\n"}

RECURSIVE NumToStr(_)
\* String(n) / n.toString() of a non-negative integer
NumToStr(n) ==
    IF n < 10 THEN <<DigitChars[n + 1]>>
    ELSE NumToStr(n \div 10) \o <<DigitChars[(n % 10) + 1]>>

RECURSIVE FracDigits(_, _, _)
\* the fractional digits of rem/den by long division, at most k of them
FracDigits(rem, den, k) ==
    IF rem = 0 \/ k = 0 THEN <<>>
    ELSE <<DigitChars[((rem * 10) \div den) + 1]>>
         \o FracDigits((rem * 10) % den, den, k - 1)

\* (num / den).toString() for a quotient whose decimal expansion terminates
QuotientToStr(num, den) ==
    IF num % den = 0 THEN NumToStr(num \div den)
    ELSE NumToStr(num \div den) \o <<".">> \o FracDigits(num % den, den, 16)

RECURSIVE DigitPrefix(_)
\* the longest prefix of s made of digits
DigitPrefix(s) ==
    IF s = <<>> \/ ~IsDigit(Head(s)) THEN <<>>
    ELSE <<Head(s)>> \o DigitPrefix(Tail(s))

RECURSIVE DigitsToNum(_)
DigitsToNum(s) ==
    IF s = <<>> THEN 0
    ELSE DigitsToNum(SubSeq(s, 1, Len(s) - 1)) * 10 + DigitVal(s[Len(s)])

IsCommaOrSpace(ch) == ch = "," \/ ch \in Whitespace

NotCommaOrSpace(ch) == ~IsCommaOrSpace(ch)

\* parseNumberInput: strip commas and whitespace, parseFloat, NaN becomes 0.
\* parseFloat reads the longest numeric prefix; the alphabet of the model has
\* no sign, decimal point or exponent, so that prefix is a run of digits.
ParseNumberInput(value) ==
    LET cleaned == SelectSeq(value, NotCommaOrSpace)
        prefix  == DigitPrefix(cleaned)
    IN  IF prefix = <<>> THEN 0 ELSE DigitsToNum(prefix)

\* the fraction digits a number of SpecNum can have: a string of at most
\* MaxStrLen characters has fewer than MaxStrLen of them and formatCellValue
\* writes at most two
FracLen == MaxStrLen - 1

\* numbers with a fraction are integers in units of 1/Unit
Unit == 10 ^ FracLen

\* parseFloat of a string without leading whitespace: an optional sign,
\* digits, an optional point and digits, read as the longest prefix of that
\* shape; NaN when the prefix holds no digit. consumed is the length of the
\* prefix. (The alphabet has no exponent and no "Infinity".)
ParseFloat(s) ==
    LET signed == s # <<>> /\ s[1] \in {"-", "+"}
        body == IF signed THEN Tail(s) ELSE s
        whole == DigitPrefix(body)
        rest == SubSeq(body, Len(whole) + 1, Len(body))
        point == rest # <<>> /\ rest[1] = "."
        frac == IF point THEN DigitPrefix(Tail(rest)) ELSE <<>>
        magnitude == DigitsToNum(whole) * Unit
                     + DigitsToNum(frac) * 10 ^ (FracLen - Len(frac))
    IN  [nan |-> whole = <<>> /\ frac = <<>>,
         value |-> IF signed /\ s[1] = "-" THEN 0 - magnitude ELSE magnitude,
         consumed |-> (IF signed THEN 1 ELSE 0) + Len(whole)
                      + (IF point THEN 1 + Len(frac) ELSE 0)]

\* parseNumberInput that strips whitespace only
ParseNumberInputFixed_KeepsCommas(value) ==
    LET parsed == ParseFloat(SelectSeq(value, LAMBDA ch : ch \notin Whitespace))
    IN  IF parsed.nan THEN 0 ELSE parsed.value

\* parseNumberInput on strings with sign and decimal point, the result in
\* units of 1/Unit: value.replace(/[,\s]/g, ''), parseFloat, NaN becomes 0
ParseNumberInputFixed(value) ==
    LET parsed == ParseFloat(SelectSeq(value, NotCommaOrSpace))
    IN  IF parsed.nan THEN 0 ELSE parsed.value

RECURSIVE Group(_)
\* the integer digits with the grouping separator of ja-JP, a comma before
\* every group of three
Group(digits) ==
    IF Len(digits) <= 3 THEN digits
    ELSE Group(SubSeq(digits, 1, Len(digits) - 3)) \o <<",">>
         \o SubSeq(digits, Len(digits) - 2, Len(digits))

RECURSIVE FixedDigits(_, _)
\* the last width digits of n, zero-padded
FixedDigits(n, width) ==
    IF width = 0 THEN <<>>
    ELSE FixedDigits(n \div 10, width - 1) \o <<DigitChars[(n % 10) + 1]>>

\* formatNumber(value, { isDailyView }): Intl.NumberFormat('ja-JP') with
\* minimum and maximum fraction digits both 2 in daily view and 0 in monthly
\* view; the value, in units of 1/Unit, is rounded half away from zero
FormatNumber(value, dailyView) ==
    LET decimalPlaces == IF dailyView THEN 2 ELSE 0
        step == 10 ^ (FracLen - decimalPlaces)
        magnitude == IF value < 0 THEN 0 - value ELSE value
        rounded == (magnitude + step \div 2) \div step
        whole == rounded \div (10 ^ decimalPlaces)
        frac == rounded % (10 ^ decimalPlaces)
    IN  (IF value < 0 THEN <<"-">> ELSE <<>>)
        \o Group(NumToStr(whole))
        \o (IF decimalPlaces > 0
            THEN <<".">> \o FixedDigits(frac, decimalPlaces)
            ELSE <<>>)

\* formatCellValue of a number (parseNumberInput never returns NaN)
FormatCellValue(value, dailyView) == FormatNumber(value, dailyView)

----------------------------------------------------------------------------
(* Cells *)

\* null
NoCell == [row |-> -1, col |-> -1, value |-> <<>>]

Cell(row, col, value) == [row |-> row, col |-> col, value |-> value]

SameCell(a, b) == a.row = b.row /\ a.col = b.col

----------------------------------------------------------------------------
(* The host: HierarchicalSpreadsheetGrid *)

ItemIds == 1..MaxItems

CategoryRow == [id |-> 0, isCategory |-> TRUE]

ItemRow(i) == [id |-> i, isCategory |-> FALSE]

\* the lists getFlatAccountItems may return: nothing, or a category header
\* followed by its items
FlatLists ==
    {<<>>} \cup { <<CategoryRow>> \o [i \in 1..n |-> ItemRow(i)] : n \in 1..MaxItems }

IsActualItem(item) == ~item.isCategory

\* flatAccountItems.filter(item => !item.isCategory)
actualItems == SelectSeq(flatAccountItems, IsActualItem)

\* rowCount: actualItems.length
rowCount == Len(actualItems)

\* columns.length
NumColumns == IF isDailyView THEN DaysInMonth ELSE MonthCount

\* isEditingDisabled: isDailyView
isEditingDisabled == isDailyView

\* getCellValue of the host (0-based row and col), reading the grid data
\* given as data
CellValueIn(data, row, col) ==
    IF row >= Len(actualItems) \/ col >= NumColumns THEN <<>>
    ELSE LET itemId == actualItems[row + 1].id
         IN  IF isDailyView
             THEN QuotientToStr(data[itemId][SelectedMonth - 1], DaysInMonth)
             ELSE NumToStr(data[itemId][col])

\* getCellValue as the handlers of one render see it
GetCellValue(row, col) == CellValueIn(gridData, row, col)

\* handleCellChange without the daily view check
CellChangeData_IgnoresView(row, col, value) ==
    IF row >= Len(actualItems) \/ col >= MonthCount THEN gridData
    ELSE LET itemId == actualItems[row + 1].id
         IN  [gridData EXCEPT ![itemId][col] = ParseNumberInput(value)]

\* the data handleCellChange passes to setGridData, or the closure's data
\* when it returns early
CellChangeData(row, col, value) ==
    IF isDailyView THEN gridData
    ELSE IF row >= Len(actualItems) \/ col >= NumColumns THEN gridData
    ELSE LET itemId == actualItems[row + 1].id
         IN  [gridData EXCEPT ![itemId][col] = ParseNumberInput(value)]

RECURSIVE BatchData(_, _)
\* handleBatchCellChange: the changes folded into one copy of the data
BatchData(data, changes) ==
    IF changes = <<>> THEN data
    ELSE LET ch == Head(changes)
             next == IF ch.row >= Len(actualItems) \/ ch.col >= NumColumns
                     THEN data
                     ELSE [data EXCEPT ![actualItems[ch.row + 1].id][ch.col] =
                                          ParseNumberInput(ch.value)]
         IN  BatchData(next, Tail(changes))

BatchChangeData(changes) ==
    IF isDailyView THEN gridData ELSE BatchData(gridData, changes)

\* tableRef.current is non-null: the host renders the table unless it is
\* loading, when it renders a skeleton instead
tableMounted == ~isLoading

\* tableElement.querySelectorAll('tbody tr').length: one tr per flat item
BodyRows == Len(flatAccountItems)

\* rows[0].querySelectorAll('td, th').length: the sticky header cell and one
\* cell per column, in a category row as well as in a data row
FirstRowCells == IF BodyRows = 0 THEN 0 ELSE NumColumns + 1

\* rows[0]?.querySelectorAll('td').length || 0
FirstRowTds == IF BodyRows = 0 THEN 0 ELSE NumColumns + 1

----------------------------------------------------------------------------
(* The engine: useSpreadsheet *)

Max(a, b) == IF a > b THEN a ELSE b

Min(a, b) == IF a < b THEN a ELSE b

\* one callback invocation: onCellChange(row, col, value) carries one change,
\* onBatchCellChange(changes) carries the list it was given
CellChangeCall(row, col, value) ==
    [fn |-> "onCellChange", changes |-> <<Cell(row, col, value)>>]

BatchChangeCall(changes) ==
    [fn |-> "onBatchCellChange", changes |-> changes]

\* the pending update of a handler: the values the batched setState calls
\* will give the engine state at the next render, and the callbacks invoked
Pending ==
    [sel |-> selectedCell, edit |-> editingCell, buf |-> editValue,
     calls |-> <<>>, prevented |-> FALSE, stopped |-> FALSE]

\* e.preventDefault()
PreventDefault(u) == [u EXCEPT !.prevented = TRUE]

\* e.stopPropagation()
StopPropagation(u) == [u EXCEPT !.stopped = TRUE]

\* selectCell that forgets setEditingCell(null)
SelectCell_KeepsEditing(u, row, col, value) ==
    [u EXCEPT !.sel = Cell(row, col, value)]

\* selectCell that commits the edit in progress before moving
SelectCell_Commits(u, row, col, value) ==
    [u EXCEPT !.sel = Cell(row, col, value),
              !.edit = NoCell,
              !.calls = IF editingCell # NoCell /\ editValue # editingCell.value
                        THEN Append(u.calls,
                                 CellChangeCall(editingCell.row, editingCell.col,
                                                editValue))
                        ELSE u.calls]

\* selectCell(row, col, value)
SelectCell(u, row, col, value) ==
    [u EXCEPT !.sel = Cell(row, col, value), !.edit = NoCell]

\* startEditing that forgets setSelectedCell
StartEditing_NoSelect(u, row, col, value) ==
    IF isEditingDisabled THEN u
    ELSE [u EXCEPT !.edit = Cell(row, col, value), !.buf = value]

\* startEditing(row, col, value)
StartEditing(u, row, col, value) ==
    IF isEditingDisabled THEN u
    ELSE [u EXCEPT !.edit = Cell(row, col, value),
                   !.buf = value,
                   !.sel = Cell(row, col, value)]

\* finishEditing that ignores its save argument
FinishEditing_IgnoresSave(u, save) ==
    IF editingCell = NoCell THEN u
    ELSE LET v == IF editValue # editingCell.value
                  THEN [u EXCEPT !.calls = Append(u.calls,
                            CellChangeCall(editingCell.row, editingCell.col,
                                           editValue))]
                  ELSE u
         IN  [v EXCEPT !.edit = NoCell, !.buf = <<>>]

\* finishEditing that commits without comparing the buffer
FinishEditing_SkipsChangedCheck(u, save) ==
    IF editingCell = NoCell THEN u
    ELSE LET v == IF save
                  THEN [u EXCEPT !.calls = Append(u.calls,
                            CellChangeCall(editingCell.row, editingCell.col,
                                           editValue))]
                  ELSE u
         IN  [v EXCEPT !.edit = NoCell, !.buf = <<>>]

\* finishEditing(save): reads editingCell and editValue of its closure
FinishEditing(u, save) ==
    IF editingCell = NoCell THEN u
    ELSE LET v == IF save /\ editValue # editingCell.value
                  THEN [u EXCEPT !.calls = Append(u.calls,
                            CellChangeCall(editingCell.row, editingCell.col,
                                           editValue))]
                  ELSE u
         IN  [v EXCEPT !.edit = NoCell, !.buf = <<>>]

\* moveCell that does not return when the table has no body row
MoveCell_NoRowCheck(u, newRow, newCol) ==
    IF ~tableMounted THEN u
    ELSE LET maxRow == BodyRows - 1
             maxCol == Max(0, FirstRowCells - 1)
             targetRow == Max(0, Min(newRow, maxRow))
             targetCol == Max(0, Min(newCol, maxCol))
         IN  SelectCell(u, targetRow, targetCol,
                        GetCellValue(targetRow, targetCol))

\* moveCell that does not clamp the target column to the last cell
MoveCell_NoColClamp(u, newRow, newCol) ==
    IF ~tableMounted THEN u
    ELSE LET maxRow == BodyRows - 1
             targetRow == Max(0, Min(newRow, maxRow))
             targetCol == Max(0, newCol)
         IN  IF maxRow < 0 THEN u
             ELSE SelectCell(u, targetRow, targetCol,
                             GetCellValue(targetRow, targetCol))

\* moveCell(newRow, newCol)
MoveCell(u, newRow, newCol) ==
    IF ~tableMounted THEN u
    ELSE LET maxRow == BodyRows - 1
             maxCol == FirstRowCells - 1
             targetRow == Max(0, Min(newRow, maxRow))
             targetCol == Max(0, Min(newCol, maxCol))
         IN  IF maxRow < 0 THEN u
             ELSE SelectCell(u, targetRow, targetCol,
                             GetCellValue(targetRow, targetCol))

Keys ==
    {"Enter", "Tab", "Escape", "ArrowUp", "ArrowDown", "ArrowLeft",
     "ArrowRight", "F2", "Delete", "Backspace", "a"}

\* editing branch whose Enter on the last row keeps the selection
KeyDownEditing_KeepsSelection(u, key) ==
    LET row == selectedCell.row
        col == selectedCell.col
    IN  CASE key = "Enter" ->
               LET f == FinishEditing(PreventDefault(u), TRUE)
                   nextRow == row + 1
               IN  IF nextRow < rowCount
                   THEN StartEditing(f, nextRow, col, GetCellValue(nextRow, col))
                   ELSE f
          [] key = "Tab" ->
               MoveCell(FinishEditing(PreventDefault(u), TRUE), row, col + 1)
          [] key = "Escape" -> FinishEditing(PreventDefault(u), FALSE)
          [] OTHER -> u

\* handleKeyDown, the branch taken while a cell is being edited
KeyDownEditing(u, key) ==
    LET row == selectedCell.row
        col == selectedCell.col
    IN  CASE key = "Enter" ->
               LET f == FinishEditing(PreventDefault(u), TRUE)
                   nextRow == row + 1
               IN  IF nextRow < rowCount
                   THEN StartEditing(f, nextRow, col, GetCellValue(nextRow, col))
                   ELSE [f EXCEPT !.sel = NoCell]
          [] key = "Tab" ->
               MoveCell(FinishEditing(PreventDefault(u), TRUE), row, col + 1)
          [] key = "Escape" -> FinishEditing(PreventDefault(u), FALSE)
          [] OTHER -> u

\* handleKeyDown, the arrow keys (both non-editing branches)
KeyDownArrow(u, key) ==
    LET row == selectedCell.row
        col == selectedCell.col
        h == StopPropagation(PreventDefault(u))
    IN  CASE key = "ArrowUp" -> MoveCell(h, row - 1, col)
          [] key = "ArrowDown" -> MoveCell(h, row + 1, col)
          [] key = "ArrowLeft" -> MoveCell(h, row, col - 1)
          [] key = "ArrowRight" -> MoveCell(h, row, col + 1)
          [] OTHER -> u

\* handleKeyDown where typing a character starts an edit
KeyDownSelected_TypeToEdit(u, key) ==
    LET row == selectedCell.row
        col == selectedCell.col
        h == StopPropagation(PreventDefault(u))
    IN  CASE key \in {"ArrowUp", "ArrowDown", "ArrowLeft", "ArrowRight"} ->
               KeyDownArrow(u, key)
          [] key \in {"Enter", "F2"} ->
               StartEditing(h, row, col, selectedCell.value)
          [] key \in {"Delete", "Backspace"} ->
               [h EXCEPT !.calls = Append(h.calls, CellChangeCall(row, col, <<>>))]
          [] key = "a" -> StartEditing(h, row, col, <<"a">>)
          [] OTHER -> u

\* handleKeyDown where Delete and Backspace open an empty editor
KeyDownSelected_DeleteEdits(u, key) ==
    LET row == selectedCell.row
        col == selectedCell.col
        h == StopPropagation(PreventDefault(u))
    IN  CASE key \in {"ArrowUp", "ArrowDown", "ArrowLeft", "ArrowRight"} ->
               KeyDownArrow(u, key)
          [] key \in {"Enter", "F2"} ->
               StartEditing(h, row, col, selectedCell.value)
          [] key \in {"Delete", "Backspace"} ->
               StartEditing(h, row, col, <<>>)
          [] OTHER -> u

\* handleKeyDown, not editing and editing enabled
KeyDownSelected(u, key) ==
    LET row == selectedCell.row
        col == selectedCell.col
        h == StopPropagation(PreventDefault(u))
    IN  CASE key \in {"ArrowUp", "ArrowDown", "ArrowLeft", "ArrowRight"} ->
               KeyDownArrow(u, key)
          [] key \in {"Enter", "F2"} ->
               StartEditing(h, row, col, selectedCell.value)
          [] key \in {"Delete", "Backspace"} ->
               [h EXCEPT !.calls = Append(h.calls, CellChangeCall(row, col, <<>>))]
          [] OTHER -> u

\* handleKeyDown(e)
HandleKeyDown(u, key) ==
    IF selectedCell = NoCell THEN u
    ELSE IF editingCell # NoCell THEN KeyDownEditing(u, key)
    ELSE IF isEditingDisabled THEN KeyDownArrow(u, key)
    ELSE KeyDownSelected(u, key)

----------------------------------------------------------------------------
(* handlePaste *)

TAB == "\t"

NL == "\n"

RECURSIVE Split(_, _)
\* s.split(sep) for a one-character separator
Split(s, sep) ==
    IF \A i \in 1..Len(s) : s[i] # sep THEN <<s>>
    ELSE LET k == CHOOSE i \in 1..Len(s) :
                      s[i] = sep /\ \A j \in 1..(i - 1) : s[j] # sep
         IN  <<SubSeq(s, 1, k - 1)>> \o Split(SubSeq(s, k + 1, Len(s)), sep)

RECURSIVE TrimStart(_)
TrimStart(s) ==
    IF s # <<>> /\ Head(s) \in Whitespace THEN TrimStart(Tail(s)) ELSE s

RECURSIVE TrimEnd(_)
TrimEnd(s) ==
    IF s # <<>> /\ s[Len(s)] \in Whitespace
    THEN TrimEnd(SubSeq(s, 1, Len(s) - 1)) ELSE s

\* trim that leaves the string as it is
Trim_KeepsWhitespace(s) == s

\* s.trim()
Trim(s) == TrimEnd(TrimStart(s))

\* text.split('\n') with one trailing empty line popped
PasteLines(text) ==
    LET lines == Split(text, NL)
    IN  IF lines[Len(lines)] = <<>> THEN SubSeq(lines, 1, Len(lines) - 1)
        ELSE lines

\* line.includes('\t') ? line.split('\t') : [line]
LineCells(line) ==
    IF \E i \in 1..Len(line) : line[i] = TAB THEN Split(line, TAB) ELSE <<line>>

RECURSIVE CellsOfLine(_, _, _, _)
\* cellValues.forEach from colOffset on: the changes one line contributes
CellsOfLine(cellValues, colOffset, targetRow, startCol) ==
    IF colOffset >= Len(cellValues) THEN <<>>
    ELSE LET targetCol == startCol + colOffset
             maxRows == BodyRows
             dataCols == FirstRowTds - 1
             trimmed == Trim(cellValues[colOffset + 1])
             processedValue == IF trimmed = <<>> THEN <<"0">> ELSE trimmed
             here == IF targetRow >= 0 /\ targetRow < maxRows
                        /\ targetCol >= 0 /\ targetCol < dataCols
                     THEN <<Cell(targetRow, targetCol, processedValue)>>
                     ELSE <<>>
         IN  here \o CellsOfLine(cellValues, colOffset + 1, targetRow, startCol)

RECURSIVE CellChanges(_, _, _, _)
\* lines.forEach from rowOffset on: the list cellChanges
CellChanges(lines, rowOffset, startRow, startCol) ==
    IF rowOffset >= Len(lines) THEN <<>>
    ELSE LET line == lines[rowOffset + 1]
             here == IF Trim(line) = <<>> THEN <<>>
                     ELSE CellsOfLine(LineCells(line), 0, startRow + rowOffset,
                                      startCol)
         IN  here \o CellChanges(lines, rowOffset + 1, startRow, startCol)

\* cellChanges.forEach(onCellChange)
SingleCalls(changes) ==
    [i \in 1..Len(changes) |->
        CellChangeCall(changes[i].row, changes[i].col, changes[i].value)]

\* handlePaste that ends the edit in progress
HandlePaste_EndsEdit(u, text, hasBatch) ==
    IF isEditingDisabled THEN u
    ELSE LET h == PreventDefault(u)
         IN  IF selectedCell = NoCell THEN h
             ELSE IF ~tableMounted THEN h
             ELSE LET cellChanges == CellChanges(PasteLines(text), 0,
                                         selectedCell.row, selectedCell.col)
                      g == [h EXCEPT !.edit = NoCell, !.buf = <<>>]
                  IN  IF hasBatch /\ Len(cellChanges) > 1
                      THEN [g EXCEPT !.calls =
                                Append(g.calls, BatchChangeCall(cellChanges))]
                      ELSE [g EXCEPT !.calls = g.calls \o SingleCalls(cellChanges)]

\* handlePaste that calls onCellChange per change whatever their number
HandlePaste_NeverBatches(u, text, hasBatch) ==
    IF isEditingDisabled THEN u
    ELSE LET h == PreventDefault(u)
         IN  IF selectedCell = NoCell THEN h
             ELSE IF ~tableMounted THEN h
             ELSE LET cellChanges == CellChanges(PasteLines(text), 0,
                                         selectedCell.row, selectedCell.col)
                  IN  [h EXCEPT !.calls = h.calls \o SingleCalls(cellChanges)]

\* handlePaste(e) with e.clipboardData.getData('text/plain') = text;
\* hasBatch tells whether the optional onBatchCellChange was passed
HandlePaste(u, text, hasBatch) ==
    IF isEditingDisabled THEN u
    ELSE LET h == PreventDefault(u)
         IN  IF selectedCell = NoCell THEN h
             ELSE IF ~tableMounted THEN h
             ELSE LET cellChanges == CellChanges(PasteLines(text), 0,
                                         selectedCell.row, selectedCell.col)
                  IN  IF hasBatch /\ Len(cellChanges) > 1
                      THEN [h EXCEPT !.calls =
                                Append(h.calls, BatchChangeCall(cellChanges))]
                      ELSE [h EXCEPT !.calls = h.calls \o SingleCalls(cellChanges)]

\* The second host, SpreadsheetGrid, on the same state: its item names are
\* the data items and its columns the months or the days.
itemNames == [i \in 1..Len(actualItems) |-> actualItems[i].id]

\* processedValue of SpreadsheetGrid: 0 for '', Number(trimmed) when the
\* value without commas is numeric, the value itself otherwise
SheetProcessedValue(value) ==
    LET trimmedValue == Trim(SelectSeq(value, LAMBDA ch : ch # ","))
    IN  IF value = <<>> THEN [kind |-> "number", num |-> 0]
        ELSE IF trimmedValue # <<>> /\ \A i \in 1..Len(trimmedValue) :
                                          IsDigit(trimmedValue[i])
        THEN [kind |-> "number", num |-> DigitsToNum(trimmedValue)]
        ELSE [kind |-> "string", str |-> value]

RECURSIVE SheetWrites(_)
\* the cells the handlers of SpreadsheetGrid write into their copy of the
\* grid data for a list of changes
SheetWrites(changes) ==
    IF changes = <<>> THEN <<>>
    ELSE LET ch == Head(changes)
             here == IF ch.row >= Len(itemNames) \/ ch.col >= NumColumns
                     THEN <<>>
                     ELSE <<[item |-> itemNames[ch.row + 1], col |-> ch.col,
                             value |-> SheetProcessedValue(ch.value)]>>
         IN  here \o SheetWrites(Tail(changes))

\* handleCellChange of SpreadsheetGrid: the writes of the data it passes to
\* handleDataChange, none when it returns early
SheetCellChangeWrites(row, col, value) ==
    IF isDailyView THEN <<>> ELSE SheetWrites(<<Cell(row, col, value)>>)

\* handleBatchCellChange of SpreadsheetGrid
SheetBatchChangeWrites(changes) ==
    IF isDailyView THEN <<>> ELSE SheetWrites(changes)

\* handlePaste when an exception is raised inside its try block, by getData
\* (throwAt = 0) or by the throwAt-th callback invocation: the catch logs
\* and swallows it, the callbacks invoked before the throwing one have
\* completed. With fewer than throwAt invocations nothing is raised.
HandlePasteThrowing(u, text, hasBatch, throwAt) ==
    LET done == HandlePaste(u, text, hasBatch)
    IN  IF isEditingDisabled \/ selectedCell = NoCell THEN done
        ELSE IF throwAt = 0 THEN PreventDefault(u)
        ELSE IF throwAt > Len(done.calls) - Len(u.calls) THEN done
        ELSE [done EXCEPT
                 !.calls = SubSeq(done.calls, 1, Len(u.calls) + throwAt - 1)]

\* whether that exception is raised at all
PasteThrows(u, text, hasBatch, throwAt) ==
    /\ ~isEditingDisabled
    /\ selectedCell # NoCell
    /\ \/ throwAt = 0
       \/ throwAt <= Len(HandlePaste(u, text, hasBatch).calls) - Len(u.calls)

----------------------------------------------------------------------------
(* The host applies the callbacks *)

\* whether the host callback reaches handleDataChange (setGridData)
CallSetsData(call) ==
    IF isDailyView THEN FALSE
    ELSE IF call.fn = "onCellChange"
         THEN ~(call.changes[1].row >= Len(actualItems)
                \/ call.changes[1].col >= NumColumns)
         ELSE TRUE

\* the data that call passes to setGridData, computed from the closure's data
CallData(call) ==
    IF call.fn = "onCellChange"
    THEN CellChangeData(call.changes[1].row, call.changes[1].col,
                        call.changes[1].value)
    ELSE BatchChangeData(call.changes)

RECURSIVE DataAfter(_, _)
\* the data of the next render: the last setGridData of the handler wins
DataAfter(data, cs) ==
    IF cs = <<>> THEN data
    ELSE DataAfter(IF CallSetsData(Head(cs)) THEN CallData(Head(cs)) ELSE data,
                   Tail(cs))

----------------------------------------------------------------------------
(* Inputs *)

\* what the user types into the edit input: the empty string, a word and
\* zero; parseNumberInput turns each into 0
TypedValues == {<<>>, <<"a">>, <<"0">>}

\* clipboard texts: one value; a line of a padded value and a blank cell
\* with its trailing newline; two values around a blank line; a block of
\* three lines of three values. parseNumberInput turns each value into 0.
PasteTexts ==
    { <<"a">>,
      <<" ", "a", TAB, " ", NL>>,
      <<"a", NL, NL, "b">>,
      <<"a", TAB, "b", TAB, "c", NL,
        "d", TAB, "e", TAB, "f", NL,
        "g", TAB, "h", TAB, "i">> }

\* gridData = {}: every lookup falls back to 0
EmptyData == [i \in ItemIds |-> [c \in 0..(MonthCount - 1) |-> 0]]

\* the budget document of the store: 6 for the first item in the first
\* month, 0 elsewhere
BudgetDoc == [EmptyData EXCEPT ![1][0] = 6]

----------------------------------------------------------------------------
(* Events *)

Event(op) ==
    [op |-> op, key |-> "", save |-> FALSE, row |-> -1, col |-> -1,
     text |-> <<>>, runs |-> 0, prevented |-> FALSE, stopped |-> FALSE]

\* what the handlers of the current render close over
EngineState ==
    [sel |-> selectedCell, edit |-> editingCell, buf |-> editValue,
     data |-> gridData]

\* the render after a handler: the pending update becomes the state and the
\* host callbacks it invoked have updated the grid data
Render(u, e) ==
    /\ selectedCell' = u.sel
    /\ editingCell' = u.edit
    /\ editValue' = u.buf
    /\ gridData' = DataAfter(gridData, u.calls)
    /\ calls' = u.calls
    /\ ev' = [e EXCEPT !.prevented = u.prevented, !.stopped = u.stopped]
    /\ pre' = EngineState
    /\ UNCHANGED <<flatAccountItems, isDailyView, isLoading>>
    /\ UNCHANGED <<numeric, autosave>>

\* the data cell (row, col) is rendered as a td with click handlers: it is
\* a cell of a data row and is not showing the edit input
CellRendered(row, col) ==
    /\ tableMounted
    /\ row \in 0..(rowCount - 1)
    /\ col \in 0..(NumColumns - 1)

\* the edit input is rendered in the cell being edited
InputRendered ==
    /\ editingCell # NoCell
    /\ CellRendered(editingCell.row, editingCell.col)

\* onCellClick of a cell: selectCell(row, col, getCellValue(row, col))
OnCellClick(row, col) ==
    /\ CellRendered(row, col)
    /\ ~(InputRendered /\ editingCell.row = row /\ editingCell.col = col)
    /\ Render(SelectCell(Pending, row, col, GetCellValue(row, col)),
              [Event("selectCell") EXCEPT !.row = row, !.col = col])

\* onDoubleClick of a cell: startEditing(row, col, getCellValue(row, col))
OnDoubleClick(row, col) ==
    /\ CellRendered(row, col)
    /\ ~(InputRendered /\ editingCell.row = row /\ editingCell.col = col)
    /\ Render(StartEditing(Pending, row, col, GetCellValue(row, col)),
              [Event("startEditing") EXCEPT !.row = row, !.col = col])

\* onChange of the edit input: setEditValue(e.target.value)
OnEditValueChange(v) ==
    /\ InputRendered
    /\ v # editValue
    /\ Render([Pending EXCEPT !.buf = v], Event("setEditValue"))

\* onKeyDown: handleKeyDown(e) with e.key = key
OnKeyDown(key) ==
    /\ tableMounted
    /\ selectedCell # NoCell
    /\ Render(HandleKeyDown(Pending, key),
              [Event("keydown") EXCEPT !.key = key, !.runs = 1])

\* onPaste: handlePaste(e)
OnPaste(text) ==
    /\ tableMounted
    /\ Render(HandlePaste(Pending, text, TRUE),
              [Event("paste") EXCEPT !.text = text, !.runs = 1])

\* onPaste where getData or a host callback throws
OnPasteThrows(text, throwAt) ==
    /\ tableMounted
    /\ PasteThrows(Pending, text, TRUE, throwAt)
    /\ Render(HandlePasteThrowing(Pending, text, TRUE, throwAt),
              [Event("pasteThrows") EXCEPT !.text = text, !.runs = 1])

\* the keys the onKeyDown wrapper of a cell's td stops before it calls
\* handleKeyDown
CellStopKeys ==
    {"ArrowUp", "ArrowDown", "ArrowLeft", "ArrowRight", "Enter", "Tab",
     "Delete", "Backspace", "F2"}

\* a keydown bubbling from a cell to the Table: the Table's onKeyDown runs
\* handleKeyDown of the same render again unless propagation was stopped
BubbleKeyDown(first, key) ==
    IF first.stopped THEN first ELSE HandleKeyDown(first, key)

\* a keydown in the edit input: onKeyDown of the Input is handleKeyDown,
\* then the event bubbles
OnInputKeyDown(key) ==
    /\ InputRendered
    /\ selectedCell # NoCell
    /\ LET first == HandleKeyDown(Pending, key)
       IN  Render(BubbleKeyDown(first, key),
                  [Event("inputKeydown") EXCEPT
                      !.key = key, !.runs = IF first.stopped THEN 1 ELSE 2])

\* a keydown on the td of a cell: the wrapper stops the keys it lists and
\* calls handleKeyDown, then the event bubbles
OnCellKeyDown(key) ==
    /\ tableMounted
    /\ rowCount > 0
    /\ ~InputRendered
    /\ selectedCell # NoCell
    /\ LET wrapped == IF key \in CellStopKeys
                      THEN StopPropagation(PreventDefault(Pending))
                      ELSE Pending
           first == HandleKeyDown(wrapped, key)
       IN  Render(BubbleKeyDown(first, key),
                  [Event("cellKeydown") EXCEPT
                      !.key = key, !.runs = IF first.stopped THEN 1 ELSE 2])

\* a paste on the td of a cell or in the edit input: onPaste of the cell is
\* handlePaste, which never stops propagation, so the Table's onPaste runs
\* handlePaste of the same render again
OnCellPaste(text) ==
    /\ tableMounted
    /\ rowCount > 0
    /\ Render(HandlePaste(HandlePaste(Pending, text, TRUE), text, TRUE),
              [Event("cellPaste") EXCEPT !.text = text, !.runs = 2])

\* finishEditing(save) called through the hook's return value
CallFinishEditing(save) ==
    /\ tableMounted
    /\ editingCell # NoCell
    /\ Render(FinishEditing(Pending, save),
              [Event("finishEditing") EXCEPT !.save = save])

HostStep(op) ==
    /\ calls' = <<>>
    /\ ev' = Event(op)
    /\ pre' = EngineState
    /\ UNCHANGED <<selectedCell, editingCell, editValue>>
    /\ UNCHANGED <<numeric, autosave>>

\* loadAccountItems: setFlatAccountItems(await getFlatAccountItems(...))
LoadAccountItems(items) ==
    /\ items # flatAccountItems
    /\ flatAccountItems' = items
    /\ HostStep("loadAccountItems")
    /\ UNCHANGED <<gridData, isDailyView, isLoading>>

\* the page filter switches between monthly and daily view
ToggleDailyView ==
    /\ isDailyView' = ~isDailyView
    /\ HostStep("toggleDailyView")
    /\ UNCHANGED <<flatAccountItems, gridData, isLoading>>

\* fetchBudgetData up to its first await
FetchBudgetData ==
    /\ ~isLoading
    /\ isLoading' = TRUE
    /\ gridData' = EmptyData
    /\ HostStep("fetchBudgetData")
    /\ UNCHANGED <<flatAccountItems, isDailyView>>

\* fetchBudgetData after its awaits: setGridData(docSnap.data())
FetchBudgetDataDone ==
    /\ isLoading
    /\ isLoading' = FALSE
    /\ gridData' = BudgetDoc
    /\ HostStep("fetchBudgetDataDone")
    /\ UNCHANGED <<flatAccountItems, isDailyView>>

\* no string has been handed to the number utilities
NoNumber ==
    [phase |-> "idle", input |-> <<>>, dailyView |-> FALSE, parsed |-> 0,
     formatted |-> <<>>, reparsed |-> 0]

\* SpreadsheetGrid as mounted: no change made, no timer set, nothing saved.
\* A change is identified by its number, version is the number of the
\* latest one and stands for the grid data it produced.
Mounted ==
    [op |-> "mount", mounted |-> TRUE, version |-> 0, timers |-> {},
     saveTimeoutRef |-> 0, writing |-> <<>>, saves |-> <<>>, stored |-> 0,
     hasUnsavedChanges |-> FALSE]

InitEngine ==
    /\ selectedCell = NoCell
    /\ editingCell = NoCell
    /\ editValue = <<>>
    /\ flatAccountItems = <<>>
    /\ gridData = EmptyData
    /\ isDailyView = FALSE
    /\ isLoading = FALSE
    /\ calls = <<>>
    /\ ev = Event("init")
    /\ pre = [sel |-> NoCell, edit |-> NoCell, buf |-> <<>>, data |-> EmptyData]

Init == InitEngine /\ numeric = NoNumber /\ autosave = Mounted

Next ==
    \/ \E row \in 0..(MaxItems - 1), col \in 0..(Max(MonthCount, DaysInMonth) - 1) :
          OnCellClick(row, col)
    \/ \E row \in 0..(MaxItems - 1), col \in 0..(Max(MonthCount, DaysInMonth) - 1) :
          OnDoubleClick(row, col)
    \/ \E v \in TypedValues : OnEditValueChange(v)
    \/ \E key \in Keys : OnKeyDown(key)
    \/ \E text \in PasteTexts : OnPaste(text)
    \/ \E key \in Keys : OnInputKeyDown(key)
    \/ \E key \in Keys : OnCellKeyDown(key)
    \/ \E text \in PasteTexts : OnCellPaste(text)
    \/ \E text \in PasteTexts, inCallback \in BOOLEAN :
          \* the hosts pass onBatchCellChange: a paste invokes one callback
          OnPasteThrows(text, IF inCallback THEN 1 ELSE 0)
    \/ \E save \in BOOLEAN : CallFinishEditing(save)
    \/ \E items \in FlatLists : LoadAccountItems(items)
    \/ ToggleDailyView
    \/ FetchBudgetData
    \/ FetchBudgetDataDone

Spec == Init /\ [][Next]_vars

----------------------------------------------------------------------------
(* SpecNum: parseNumberInput and formatCellValue on bounded strings *)

\* digits that round without a tie, point, comma, sign, blank and a letter
NumChars == {"0", "1", "7", ".", ",", "-", " ", "a"}

NumStrings == UNION { [1..n -> NumChars] : n \in 0..MaxStrLen }

InitNum ==
    /\ InitEngine
    /\ autosave = Mounted
    /\ \E s \in NumStrings, dailyView \in BOOLEAN :
          numeric = [NoNumber EXCEPT !.phase = "input", !.input = s,
                                 !.dailyView = dailyView]

\* parseNumberInput(s), as handleCellChange stores what the user entered
ParseInput ==
    /\ numeric.phase = "input"
    /\ numeric' = [numeric EXCEPT !.phase = "parsed",
                          !.parsed = ParseNumberInputFixed(numeric.input)]
    /\ UNCHANGED <<engineVars, autosave>>

\* formatCellValue(value, isDailyView), as the cell displays the value
FormatParsed ==
    /\ numeric.phase = "parsed"
    /\ numeric' = [numeric EXCEPT !.phase = "formatted",
                          !.formatted = FormatCellValue(numeric.parsed, numeric.dailyView)]
    /\ UNCHANGED <<engineVars, autosave>>

\* parseNumberInput of the displayed text
ParseFormatted ==
    /\ numeric.phase = "formatted"
    /\ numeric' = [numeric EXCEPT !.phase = "reparsed",
                          !.reparsed = ParseNumberInputFixed(numeric.formatted)]
    /\ UNCHANGED <<engineVars, autosave>>

NextNum == ParseInput \/ FormatParsed \/ ParseFormatted

SpecNum == InitNum /\ [][NextNum]_vars

----------------------------------------------------------------------------
(* SpecSave: the debounced autosave of SpreadsheetGrid *)

\* clearTimeout(saveTimeoutRef.current); the ref keeps the id of a timer
\* that has fired, clearing that one does nothing
ClearTimeout(a) == [a EXCEPT !.timers = a.timers \ {a.saveTimeoutRef}]

\* handleDataChange that sets the new timer without clearing the old one
SheetHandleDataChange_KeepsTimer(a) ==
    [a EXCEPT !.version = a.version + 1,
              !.hasUnsavedChanges = TRUE,
              !.timers = a.timers \cup {a.version + 1},
              !.saveTimeoutRef = a.version + 1]

\* handleDataChange(newData) of SpreadsheetGrid: the timer it sets carries
\* newData, identified by the number of the change
SheetHandleDataChange(a) ==
    LET cleared == ClearTimeout(a)
    IN  [cleared EXCEPT !.version = a.version + 1,
                        !.hasUnsavedChanges = TRUE,
                        !.timers = cleared.timers \cup {a.version + 1},
                        !.saveTimeoutRef = a.version + 1]

\* a cell change, a batch change, a CSV import or a row operation calls
\* handleDataChange; all of them need a selected media
SheetDataChange ==
    /\ autosave.mounted
    /\ autosave.version < MaxChanges
    /\ autosave' = [SheetHandleDataChange(autosave) EXCEPT !.op = "dataChange"]
    /\ UNCHANGED <<engineVars, numeric>>

\* the timer callback up to its await: saveBudgetData(newData) calls setDoc
SaveTimerFires ==
    /\ \E t \in autosave.timers :
          autosave' = [autosave EXCEPT !.op = "saveTimerFires",
                                       !.timers = autosave.timers \ {t},
                                       !.saves = Append(autosave.saves, t),
                                       !.writing = Append(autosave.writing, t)]
    /\ UNCHANGED <<engineVars, numeric>>

\* setDoc settles, writes settle in the order they were issued: the
\* document holds the data when it resolved, a rejection is caught and
\* reported; then setHasUnsavedChanges(false)
SaveSettles(resolved) ==
    /\ autosave.writing # <<>>
    /\ autosave' = [autosave EXCEPT
            !.op = "saveSettles",
            !.writing = Tail(autosave.writing),
            !.stored = IF resolved THEN Head(autosave.writing) ELSE @,
            !.hasUnsavedChanges = IF autosave.mounted THEN FALSE ELSE @]
    /\ UNCHANGED <<engineVars, numeric>>

\* the cleanup of the mount effect
SheetUnmount ==
    /\ autosave.mounted
    /\ autosave' = [ClearTimeout(autosave) EXCEPT !.op = "unmount",
                                                  !.mounted = FALSE]
    /\ UNCHANGED <<engineVars, numeric>>

InitSave == InitEngine /\ numeric = NoNumber /\ autosave = Mounted

NextSave ==
    \/ SheetDataChange
    \/ SaveTimerFires
    \/ \E resolved \in BOOLEAN : SaveSettles(resolved)
    \/ SheetUnmount

SpecSave == InitSave /\ [][NextSave]_vars

\* a pending timer fires: one second passes without the event loop stopping
SpecSaveFair == SpecSave /\ WF_vars(SaveTimerFires)

----------------------------------------------------------------------------
(* Properties *)

ArrowKeys == {"ArrowUp", "ArrowDown", "ArrowLeft", "ArrowRight"}

\* the last event was the key `key` handled while a cell was being edited
KeyWhileEditing(key) ==
    ev.op = "keydown" /\ ev.key = key /\ pre.edit # NoCell

\* the calls finishEditing(true) makes for the edit the event started from
CommitCalls ==
    IF pre.buf # pre.edit.value
    THEN <<CellChangeCall(pre.edit.row, pre.edit.col, pre.buf)>>
    ELSE <<>>

\* the edit the event started from had a buffer that differs from the value
\* captured at edit-start
Dirty == pre.edit # NoCell /\ pre.buf # pre.edit.value

\* the event put a cell into Editing
EnteredEditing == editingCell # NoCell /\ editingCell # pre.edit

\* C1: whenever a cell is being edited, a cell is selected and it is the
\* same (row, col)
C1_EditingIsSelected ==
    editingCell # NoCell =>
        selectedCell # NoCell /\ SameCell(selectedCell, editingCell)

\* C1: Enter-advance has put the next row into Editing
C1_Witness ==
    KeyWhileEditing("Enter") /\ editingCell # NoCell /\ editingCell.row = 1

\* C2: while isEditingDisabled is true no keydown, paste or edit-start
\* invokes a change callback or puts a cell into Editing, also when a cell
\* was still being edited when the flag became true
C2_DisabledSuppressesAll ==
    (isEditingDisabled /\ ev.op \in {"keydown", "paste", "startEditing"}) =>
        calls = <<>> /\ ~EnteredEditing

\* C3: selectCell while a cell is being edited selects the new cell, clears
\* the editing cell and invokes no callback
C3_SelectAbandonsEdit ==
    (ev.op = "selectCell" /\ pre.edit # NoCell) =>
        /\ calls = <<>>
        /\ gridData = pre.data
        /\ editingCell = NoCell
        /\ selectedCell # NoCell
        /\ selectedCell.row = ev.row /\ selectedCell.col = ev.col

\* C3: another cell was selected while an edit had an unsaved buffer
C3_Witness ==
    ev.op = "selectCell" /\ Dirty /\ ~SameCell(selectedCell, pre.edit)

\* C4: Escape while editing invokes no callback and leaves the same cell
\* selected and no cell being edited
C4_EscapeNeverCommits ==
    KeyWhileEditing("Escape") =>
        /\ calls = <<>>
        /\ gridData = pre.data
        /\ editingCell = NoCell
        /\ selectedCell # NoCell /\ SameCell(selectedCell, pre.edit)
        /\ selectedCell = pre.sel

\* C4: Escape was pressed on an edit with an unsaved buffer
C4_Witness == KeyWhileEditing("Escape") /\ Dirty

\* C5: finishEditing(save) while editing invokes onCellChange(r, c, buffer)
\* once if save and the buffer differs from the captured value, nothing
\* otherwise; it clears the editing cell and the buffer and keeps the selection
C5_FinishEditing ==
    (ev.op = "finishEditing" /\ pre.edit # NoCell) =>
        /\ calls = (IF ev.save THEN CommitCalls ELSE <<>>)
        /\ editingCell = NoCell
        /\ editValue = <<>>
        /\ selectedCell = pre.sel

\* C5: finishEditing(true) committed a changed buffer
C5_Witness == ev.op = "finishEditing" /\ ev.save /\ Dirty /\ Len(calls) = 1

\* the state Enter-advance leaves: the next row in Editing with the host's
\* value of that cell as buffer and as captured value
AdvancedFrom(row, col) ==
    LET live == CellValueIn(pre.data, row + 1, col)
    IN  /\ calls = CommitCalls
        /\ editingCell = Cell(row + 1, col, live)
        /\ selectedCell = Cell(row + 1, col, live)
        /\ editValue = live

\* C6 as claimed: Enter while editing (r, c) with r + 1 < rowCount commits
\* and leaves (r + 1, c) in Editing
C6_EnterAdvances ==
    (KeyWhileEditing("Enter") /\ pre.sel.row + 1 < rowCount) =>
        AdvancedFrom(pre.sel.row, pre.sel.col)

\* C6 amended: Enter while editing (r, c) with r + 1 < rowCount and editing
\* enabled commits and leaves (r + 1, c) in Editing
C6_EnterAdvancesWhenEnabled ==
    (KeyWhileEditing("Enter") /\ pre.sel.row + 1 < rowCount
        /\ ~isEditingDisabled) =>
        AdvancedFrom(pre.sel.row, pre.sel.col)

\* C6: Enter committed a changed buffer and advanced
C6_Witness ==
    /\ KeyWhileEditing("Enter") /\ Dirty /\ ~isEditingDisabled
    /\ pre.sel.row + 1 < rowCount
    /\ Len(calls) = 1 /\ editingCell.row = pre.sel.row + 1

\* C7: Enter while editing a cell with row + 1 >= rowCount commits and
\* leaves no cell selected and no cell being edited
C7_EnterOnLastRow ==
    (KeyWhileEditing("Enter") /\ pre.sel.row + 1 >= rowCount) =>
        /\ calls = CommitCalls
        /\ selectedCell = NoCell
        /\ editingCell = NoCell

\* C7: Enter committed a changed buffer on the last row
C7_Witness ==
    /\ KeyWhileEditing("Enter") /\ Dirty /\ rowCount > 0
    /\ pre.sel.row + 1 = rowCount /\ Len(calls) = 1

C9_EditStartsFromLiveValue ==
    EnteredEditing =>
        LET live == CellValueIn(pre.data, editingCell.row, editingCell.col)
        IN  editValue = live /\ editingCell.value = live

KeyWhileSelected ==
    ev.op = "keydown" /\ pre.sel # NoCell /\ pre.edit = NoCell

\* C11: with editing enabled and a cell selected and not edited, Delete or
\* Backspace invokes onCellChange(r, c, "") once, enters no edit and keeps
\* the selection
C11_DeleteClears ==
    (KeyWhileSelected /\ ~isEditingDisabled
        /\ ev.key \in {"Delete", "Backspace"}) =>
        /\ calls = <<CellChangeCall(pre.sel.row, pre.sel.col, <<>>)>>
        /\ editingCell = NoCell
        /\ editValue = pre.buf
        /\ selectedCell = pre.sel

\* C11: Delete cleared a cell that held a value
C11_Witness ==
    /\ KeyWhileSelected /\ ~isEditingDisabled /\ ev.key = "Delete"
    /\ pre.sel.value = <<"6">> /\ pre.data # gridData

Clamp(n, lo, hi) == Max(lo, Min(n, hi))

\* the row and the column an arrow key asks for, from the selection the
\* event started from
ArrowRow ==
    pre.sel.row + (CASE ev.key = "ArrowUp" -> -1
                     [] ev.key = "ArrowDown" -> 1
                     [] OTHER -> 0)

ArrowCol ==
    pre.sel.col + (CASE ev.key = "ArrowLeft" -> -1
                     [] ev.key = "ArrowRight" -> 1
                     [] OTHER -> 0)

\* C12: with editing disabled and a cell selected and not edited, a key
\* other than an arrow changes nothing and invokes nothing, and an arrow
\* moves the selection one row or column, clamped to rows 0..rowCount - 1
\* and to the cells of the first rendered row
C12_DisabledNavigationOnly ==
    (KeyWhileSelected /\ isEditingDisabled) =>
        /\ calls = <<>>
        /\ editingCell = NoCell
        /\ editValue = pre.buf
        /\ ev.key \notin ArrowKeys => selectedCell = pre.sel
        /\ (ev.key \in ArrowKeys /\ BodyRows > 0) =>
              /\ selectedCell.row = Clamp(ArrowRow, 0, rowCount - 1)
              /\ selectedCell.col = Clamp(ArrowCol, 0, FirstRowCells - 1)

\* C13: a move request on a rendered table yields a selection with
\* 0 <= row <= rowCount - 1 and 0 <= col <= cells of the first rendered
\* row - 1
C13_MoveClampsToRowCount ==
    (ev.op = "keydown" /\ pre.sel # NoCell /\ BodyRows > 0
        /\ (ev.key = "Tab" \/ (ev.key \in ArrowKeys /\ pre.edit = NoCell))) =>
        /\ selectedCell # NoCell
        /\ 0 <= selectedCell.row /\ selectedCell.row <= rowCount - 1
        /\ 0 <= selectedCell.col /\ selectedCell.col <= FirstRowCells - 1

\* the selection the event started from is on the edge the arrow key
\* points at
OnEdge ==
    CASE ev.key = "ArrowUp" -> pre.sel.row = 0
      [] ev.key = "ArrowDown" -> pre.sel.row = rowCount - 1
      [] ev.key = "ArrowLeft" -> pre.sel.col = 0
      [] ev.key = "ArrowRight" -> pre.sel.col = FirstRowCells - 1
      [] OTHER -> FALSE

\* C14: an arrow key pressed with the selection on the edge it points at
\* leaves the selection on the same cell and invokes no callback
C14_EdgeArrowStays ==
    (KeyWhileSelected /\ ev.key \in ArrowKeys /\ OnEdge
        /\ pre.sel.row < rowCount) =>
        /\ selectedCell # NoCell
        /\ SameCell(selectedCell, pre.sel)
        /\ editingCell = NoCell
        /\ calls = <<>>

\* C15: when the table is not mounted or has no rendered body row, a move
\* request is dropped: moveCell changes nothing, an arrow key leaves the
\* selection, the editing cell and the buffer as they were, and Tab while
\* editing only commits
C15_MoveDroppedWithoutRows ==
    (~tableMounted \/ BodyRows = 0) =>
        /\ \A r \in -1..(MaxItems + 1), c \in -1..(NumColumns + 1) :
              MoveCell(Pending, r, c) = Pending
        /\ (ev.op = "keydown" /\ pre.sel # NoCell
             /\ ev.key \in ArrowKeys \cup {"Tab"}) =>
              /\ selectedCell = pre.sel
              /\ IF pre.edit # NoCell /\ ev.key = "Tab"
                 THEN /\ calls = CommitCalls
                      /\ editingCell = NoCell
                      /\ editValue = <<>>
                 ELSE /\ calls = <<>>
                      /\ editingCell = pre.edit
                      /\ editValue = pre.buf

\* C15: Tab committed a changed buffer on a table without body rows
C15_Witness ==
    /\ KeyWhileEditing("Tab") /\ Dirty /\ BodyRows = 0
    /\ Len(calls) = 1 /\ selectedCell = pre.sel

RECURSIVE Flatten(_)
\* the changes carried by a list of callback invocations, in order
Flatten(cs) ==
    IF cs = <<>> THEN <<>> ELSE Head(cs).changes \o Flatten(Tail(cs))

\* the changes the last event emitted, and their set
Emitted == Flatten(calls)

EmittedSet == { Emitted[i] : i \in 1..Len(Emitted) }

\* the last event was a paste with editing enabled and a cell selected
PasteOnSelection ==
    ev.op = "paste" /\ ~isEditingDisabled /\ pre.sel # NoCell

\* C16: a paste with editing disabled or with no cell selected invokes no
\* callback, changes no engine state and has preventDefault called
C16_PasteNoOpPreventsDefault ==
    (ev.op = "paste" /\ (isEditingDisabled \/ pre.sel = NoCell)) =>
        /\ calls = <<>>
        /\ selectedCell = pre.sel
        /\ editingCell = pre.edit
        /\ editValue = pre.buf
        /\ ev.prevented

\* the lines of the pasted text and the offsets of those that are not blank
EvLines == PasteLines(ev.text)

NonBlankOffsets == { d \in 0..(Len(EvLines) - 1) : Trim(EvLines[d + 1]) # <<>> }

\* C17: the k-th non-blank line of a paste is written to row anchor.row + k,
\* a blank line takes no row
C17_BlankLineTakesNoRow ==
    (PasteOnSelection /\ pre.sel.col < FirstRowTds - 1) =>
        { x.row : x \in EmittedSet } =
            { pre.sel.row + k : k \in 0..(Cardinality(NonBlankOffsets) - 1) }
                \cap (0..(BodyRows - 1))

\* a pasted cell value after trimming, "0" when nothing is left
Normalized(v) == IF Trim(v) = <<>> THEN <<"0">> ELSE Trim(v)

\* the cells of the pasted text with the targets handlePaste gives them
ParsedCells ==
    UNION { { Cell(pre.sel.row + d, pre.sel.col + dc,
                   Normalized(LineCells(EvLines[d + 1])[dc + 1])) :
                dc \in 0..(Len(LineCells(EvLines[d + 1])) - 1) } :
            d \in NonBlankOffsets }

\* C18: a paste emits exactly the parsed cells whose target lies in the
\* data area, rows 0..rowCount - 1 and the columns of the first rendered
\* row without its header cell, each once
C18_PasteClipsToDataArea ==
    PasteOnSelection =>
        /\ EmittedSet = { x \in ParsedCells :
                            /\ 0 <= x.row /\ x.row < rowCount
                            /\ 0 <= x.col /\ x.col < FirstRowTds - 1 }
        /\ Len(Emitted) = Cardinality(EmittedSet)

\* C19: a paste emits values without surrounding whitespace, "0" for a cell
\* that is blank, and nothing for the empty line after a trailing newline:
\* " a", tab, " ", newline emits "a" at the anchor and "0" right of it
C19_PasteNormalizesValues ==
    PasteOnSelection =>
        /\ \A x \in EmittedSet :
              /\ x.value # <<>>
              /\ Head(x.value) \notin Whitespace
              /\ x.value[Len(x.value)] \notin Whitespace
        /\ ev.text = <<" ", "a", TAB, " ", NL>> =>
              /\ EmittedSet =
                    { x \in { Cell(pre.sel.row, pre.sel.col, <<"a">>),
                              Cell(pre.sel.row, pre.sel.col + 1, <<"0">>) } :
                        x.row < BodyRows /\ x.col < FirstRowTds - 1 }
              /\ Len(Emitted) = Cardinality(EmittedSet)

\* C19: the padded value and the blank cell were pasted at (0, 0)
C19_Witness ==
    /\ PasteOnSelection /\ ev.text = <<" ", "a", TAB, " ", NL>>
    /\ Emitted = <<Cell(0, 0, <<"a">>), Cell(0, 1, <<"0">>)>>

\* the calls are one onCellChange per change
SingleCallsOnly(cs) ==
    \A i \in 1..Len(cs) : cs[i].fn = "onCellChange" /\ Len(cs[i].changes) = 1

\* C20: a paste of more than one change with onBatchCellChange passed makes
\* one onBatchCellChange call carrying all changes in row-major order and
\* no onCellChange call; otherwise it makes one onCellChange call per
\* change, in the same order
C20_BatchOrSingle ==
    /\ ev.op = "paste" =>
          /\ IF Len(Emitted) > 1 THEN calls = <<BatchChangeCall(Emitted)>>
             ELSE SingleCallsOnly(calls)
          /\ \A i, j \in 1..Len(Emitted) :
                i < j => \/ Emitted[i].row < Emitted[j].row
                         \/ /\ Emitted[i].row = Emitted[j].row
                            /\ Emitted[i].col < Emitted[j].col
    /\ tableMounted =>
          \A text \in PasteTexts :
              LET batch == HandlePaste(Pending, text, TRUE).calls
                  single == HandlePaste(Pending, text, FALSE).calls
              IN  /\ SingleCallsOnly(single)
                  /\ Flatten(single) = Flatten(batch)
                  /\ Len(single) = Len(Flatten(batch))

\* C20: a paste of several changes went out as one batch call
C20_Witness ==
    /\ ev.op = "paste" /\ Len(calls) = 1
    /\ calls[1].fn = "onBatchCellChange" /\ Len(calls[1].changes) = 4

\* the last event was a keydown, delivered to the Table, to the edit input
\* or to the td of a cell
KeyDownEvent == ev.op \in {"keydown", "inputKeydown", "cellKeydown"}

\* the key of the last event is one handleKeyDown has a case for in the
\* branch it took
HandledKey ==
    IF pre.edit # NoCell THEN ev.key \in {"Enter", "Tab", "Escape"}
    ELSE IF isEditingDisabled THEN ev.key \in ArrowKeys
    ELSE ev.key \in ArrowKeys \cup {"Enter", "F2", "Delete", "Backspace"}

\* C24: every key handleKeyDown handles has preventDefault and
\* stopPropagation called, one keydown runs the handler once, and an Enter
\* or Tab commit invokes onCellChange at most once
C24_HandledKeysStopEvent ==
    (KeyDownEvent /\ pre.sel # NoCell /\ HandledKey) =>
        /\ ev.prevented
        /\ ev.stopped
        /\ ev.runs = 1
        /\ Len(calls) <= 1

\* C26: after an arrow key or Tab on a rendered table the selected column
\* is at most the last column handlePaste accepts, the td cells of the
\* first rendered row minus the header cell, minus one
C26_MoveStaysInPasteColumns ==
    (KeyDownEvent /\ pre.sel # NoCell /\ BodyRows > 0
        /\ pre.sel.col <= (FirstRowTds - 1) - 1
        /\ \/ ev.key \in ArrowKeys /\ pre.edit = NoCell
           \/ ev.key = "Tab" /\ pre.edit # NoCell) =>
        selectedCell.col <= (FirstRowTds - 1) - 1

\* C27: Enter or Tab while editing with editing enabled invokes
\* onCellChange(row, col, buffer) whenever the buffer differs from the
\* host's value of the cell
C27_CommitComparesLiveValue ==
    (ev.op = "keydown" /\ ev.key \in {"Enter", "Tab"} /\ pre.edit # NoCell
        /\ ~isEditingDisabled
        /\ pre.buf # CellValueIn(pre.data, pre.edit.row, pre.edit.col)) =>
        /\ calls # <<>>
        /\ calls[1] = CellChangeCall(pre.edit.row, pre.edit.col, pre.buf)

\* the last event was a paste, delivered to the Table or to a cell
PasteEvent == ev.op \in {"paste", "cellPaste"}

\* C28: a paste leaves selectedCell, editingCell and the buffer as they were
C28_PasteKeepsEngineState ==
    PasteEvent =>
        /\ selectedCell = pre.sel
        /\ editingCell = pre.edit
        /\ editValue = pre.buf

\* C28: text was pasted during an edit with an unsaved buffer and changes
\* were emitted
C28_Witness ==
    /\ ev.op = "paste" /\ Dirty /\ editingCell # NoCell
    /\ editValue # <<>> /\ Len(Emitted) > 1

\* C29: one paste on a cell emits each of its changes once
C29_CellPasteEmitsOnce ==
    ev.op = "cellPaste" =>
        /\ Len(calls) <= 1 \/ SingleCallsOnly(calls)
        /\ Len(Emitted) = Cardinality(EmittedSet)

EmittableChanges ==
    { Cell(row, col, value) :
        row \in 0..MaxItems, col \in 0..Max(MonthCount, DaysInMonth),
        value \in TypedValues \cup {<<"6">>} }

\* the last step produced the host state: the change handlers of the hosts
\* read the items, the view and the grid data only, so they are applied to
\* every such state where it first appears
HostStateChanged ==
    \/ ev.op \in {"init", "loadAccountItems", "toggleDailyView",
                  "fetchBudgetData", "fetchBudgetDataDone"}
    \/ gridData # pre.data

\* C30: in daily view no change reaches the grid data of either host, and
\* in monthly view a change with row >= number of data items or col >=
\* number of columns leaves the grid data as it is, alone and in a batch
C30_HostsIgnoreOutOfScopeChanges ==
    /\ (isDailyView /\ (KeyDownEvent \/ PasteEvent)) => gridData = pre.data
    /\ HostStateChanged =>
        \A ch \in EmittableChanges :
          (isDailyView \/ ch.row >= rowCount \/ ch.col >= NumColumns) =>
              /\ CellChangeData(ch.row, ch.col, ch.value) = gridData
              /\ BatchChangeData(<<ch>>) = gridData
              /\ BatchChangeData(<<Cell(0, 0, <<"6">>), ch>>)
                    = BatchChangeData(<<Cell(0, 0, <<"6">>)>>)
              /\ SheetCellChangeWrites(ch.row, ch.col, ch.value) = <<>>
              /\ SheetBatchChangeWrites(<<ch>>) = <<>>
              /\ SheetBatchChangeWrites(<<Cell(0, 0, <<"6">>), ch>>)
                    = SheetBatchChangeWrites(<<Cell(0, 0, <<"6">>)>>)

\* C30: in daily view the engine emitted a change for a cell that holds 6
\* and the cell still holds it
C30_Witness ==
    /\ isDailyView /\ KeyDownEvent /\ calls # <<>>
    /\ calls[1].changes[1].row = 0 /\ calls[1].changes[1].col = 0
    /\ rowCount > 0 /\ gridData[1][0] = 6

\* the whole of s is a number: parseFloat reads all of it
IsNumeric(s) == ~ParseFloat(s).nan /\ ParseFloat(s).consumed = Len(s)

\* the input has been parsed, formatted for its view and parsed again
RoundTripDone == numeric.phase = "reparsed" /\ IsNumeric(numeric.input)

\* the value has no digit beyond the fraction digits its view displays
Displayable(value, dailyView) ==
    value % (10 ^ (FracLen - (IF dailyView THEN 2 ELSE 0))) = 0

\* C22 as claimed: for every valid numeric string s without thousands
\* separators, integer or decimal, in monthly and in daily view,
\* parseNumberInput(formatCellValue(parseNumberInput(s))) is
\* parseNumberInput(s)
C22_FormatParseRoundTrip ==
    RoundTripDone => numeric.reparsed = numeric.parsed

\* C22 amended: the round trip returns parseNumberInput(s) for every valid
\* numeric string s without thousands separators whose value is an integer
\* in monthly view or has at most two decimal places in daily view
C22_DisplayableRoundTrip ==
    (RoundTripDone /\ Displayable(numeric.parsed, numeric.dailyView)) =>
        numeric.reparsed = numeric.parsed

\* C22: 1777 went through the monthly format, which groups it as 1,777
C22_Witness ==
    /\ RoundTripDone /\ ~numeric.dailyView
    /\ numeric.input = <<"1", "7", "7", "7">>
    /\ numeric.formatted = <<"1", ",", "7", "7", "7">>
    /\ numeric.reparsed = 1777 * Unit

\* C23: parseNumberInput returns 0 for an input that is no valid number
\* once commas and surrounding whitespace are removed, and the number
\* otherwise
C23_InvalidInputParsesToZero ==
    numeric.phase \in {"parsed", "formatted", "reparsed"} =>
        LET text == Trim(SelectSeq(numeric.input, LAMBDA ch : ch # ","))
        IN  numeric.parsed = IF IsNumeric(text) THEN ParseFloat(text).value
                             ELSE 0

\* the change a save covers: the latest save wrote data at least as recent
SavedSince(v) ==
    autosave.saves # <<>> /\ autosave.saves[Len(autosave.saves)] >= v

\* C25: at most one save timer is pending, it carries the data of the most
\* recent change, so does the save that has just run, and while the
\* component stays mounted every change is followed by a save of data at
\* least as recent
C25_DebouncedAutosave ==
    /\ [](/\ Cardinality(autosave.timers) <= 1
          /\ autosave.timers \subseteq {autosave.version}
          /\ autosave.op = "saveTimerFires" =>
                autosave.saves[Len(autosave.saves)] = autosave.version)
    /\ \A v \in 1..MaxChanges :
          (autosave.version >= v) ~> (~autosave.mounted \/ SavedSince(v))

\* C25: the timer of the first change was cancelled by the second change
\* and the only save so far wrote the data of the second
C25_Witness ==
    /\ autosave.op = "saveTimerFires" /\ autosave.mounted
    /\ autosave.version = 2 /\ autosave.saves = <<2>>

============================================================================
